---------------------------- MODULE Spec2Model ----------------------------
(***************************************************************************)
(* State-machine model of TBP.py: the three-body simulation's main loop,   *)
(* its Slider and Button widgets and Body.update_position.                 *)
(*                                                                         *)
(* The Python program computes in float64.  TLC computes in 32-bit         *)
(* integers, so every quantity is held in fixed point, truncating toward   *)
(* zero where float64 would round:                                         *)
(*     mass              1e28 kg        (slider range 1 .. 500)            *)
(*     position, r       1e8 m                                             *)
(*     velocity          1 m/s                                             *)
(*     acceleration      1e-6 m/s^2                                        *)
(*     force_magnitude   1e23 N                                            *)
(*     G                 1e-14 N m^2/kg^2                                  *)
(*     simulation_speed  1e-7           (1.0 is 10000000)                  *)
(*     time              1 s                                               *)
(* The powers of ten that appear in update_position and in the wheel       *)
(* handler are the conversions between these units; the order of the       *)
(* operations is the code's.                                               *)
(***************************************************************************)
EXTENDS Integers, Sequences, FiniteSets, TLC

(***************************************************************************)
(* Module constants (TBP.py lines 10-16)                                   *)
(***************************************************************************)
SIMULATION_HEIGHT == 700
G == 6674
TIME_STEP == 3600 * 24

\* The softening term of line 55, 1e5 m^2, is 1e-11 position units squared:
\* it is below the resolution of the fixed point (and below one ulp of the
\* float64 distance ** 2 at the distances of the triangle, about 1e23 m^2).
SOFTENING == 0

(***************************************************************************)
(* Bounds of the model.  A budget says how much input the environment      *)
(* supplies: how many frames the loop is followed for, how many events     *)
(* arrive in all, how many of them are wheel events, how many are other    *)
(* events, and during how many of the first frames events arrive.          *)
(***************************************************************************)
MaxFrames == 2
MaxEvents == 3
MaxWheelShort == 2
MaxFramesWheel == 1
MaxWheel == 13
MaxOtherWheel == 1
MaxFramesLong == 402
MaxEventsLong == 1

(***************************************************************************)
(* Arithmetic helpers                                                      *)
(***************************************************************************)
Max(a, b) == IF a >= b THEN a ELSE b
Min(a, b) == IF a <= b THEN a ELSE b

\* Division truncating toward zero, as float division followed by the
\* fixed point's truncation: TruncDiv(-a, b) = -TruncDiv(a, b).
TruncDiv(a, b) == IF a >= 0 THEN a \div b ELSE -((-a) \div b)

\* The largest k in lo .. hi with k * k <= n, by bisection.
SqrtSearch[n \in Nat, lo \in Nat, hi \in Nat] ==
    IF lo >= hi THEN lo
    ELSE LET mid == (lo + hi + 1) \div 2
         IN  IF mid * mid <= n THEN SqrtSearch[n, mid, hi]
                               ELSE SqrtSearch[n, lo, mid - 1]

\* np.linalg.norm of a 2-vector, truncated to the position unit.
Norm(r) == SqrtSearch[r[1] * r[1] + r[2] * r[2], 0, 46340]

\* F applied to the value of v, v being evaluated once: a local variable of
\* the Python code that is assigned once and read several times.
Bind(v, F(_)) == CHOOSE y \in {F(x) : x \in {v}} : TRUE

VecAdd(a, b) == <<a[1] + b[1], a[2] + b[2]>>
VecSub(a, b) == <<a[1] - b[1], a[2] - b[2]>>
VecNeg(a) == <<-a[1], -a[2]>>

(***************************************************************************)
(* Body (lines 36-65)                                                      *)
(***************************************************************************)
max_trail_length == 400

Body(mass, position, velocity) ==
    [mass |-> mass, position |-> position, velocity |-> velocity, trail |-> <<>>]

\* Line 55: G * self.mass * body.mass / (distance ** 2 + 1e5).
\* The denominator is taken in units of 1e19 m^2 so that the quotient keeps
\* four digits.
force_magnitude(self, body, distance) ==
    (G * self.mass * body.mass) \div ((distance * distance + SOFTENING) \div 1000)

\* Lines 52-56, the vector force_magnitude * r / distance that the loop
\* divides by self.mass: the force on bs[i] due to bs[j] as update_position
\* of bs[i] computes it from the positions the list holds at that moment.
PairForce(bs, i, j) ==
    Bind(VecSub(bs[j].position, bs[i].position), LAMBDA r :
    Bind(Norm(r), LAMBDA distance :
        IF distance > 0
        THEN Bind(force_magnitude(bs[i], bs[j], distance), LAMBDA fm :
                <<TruncDiv(fm * r[1], distance), TruncDiv(fm * r[2], distance)>>)
        ELSE <<0, 0>>))

\* Line 56: the term added to acceleration, the force over self.mass.
PairAcceleration(bs, i, j) ==
    Bind(PairForce(bs, i, j), LAMBDA f :
        <<TruncDiv(f[1] * 10, bs[i].mass), TruncDiv(f[2] * 10, bs[i].mass)>>)

Others(i) == IF i = 1 THEN <<2, 3>> ELSE IF i = 2 THEN <<1, 3>> ELSE <<1, 2>>

\* Lines 49-56: the acceleration of bs[i], summed over the other bodies.
Acceleration(bs, i) ==
    VecAdd(PairAcceleration(bs, i, Others(i)[1]),
           PairAcceleration(bs, i, Others(i)[2]))

\* Lines 62-65: append, then evict the oldest entry beyond max_trail_length.
TrailPopNewest(trail, p) ==
    LET t == Append(trail, p)
    IN  IF Len(t) > max_trail_length THEN SubSeq(t, 1, Len(t) - 1) ELSE t

TrailAppend(trail, p) ==
    LET t == Append(trail, p)
    IN  IF Len(t) > max_trail_length THEN Tail(t) ELSE t

\* Lines 47-65: bs with bs[i] advanced by dt; the other bodies untouched.
\* acceleration * dt is converted from 1e-6 m/s to m/s, velocity * dt from
\* m to 1e8 m (dt / 1e8 = (dt / 100) / 1e6, the product kept in range).
update_position(bs, i, dt) ==
    LET self == bs[i]
    IN  Bind(Acceleration(bs, i), LAMBDA acceleration :
        Bind(<<self.velocity[1] + TruncDiv(acceleration[1] * dt, 1000000),
               self.velocity[2] + TruncDiv(acceleration[2] * dt, 1000000)>>,
             LAMBDA velocity :
        Bind(<<self.position[1] + TruncDiv(velocity[1] * (dt \div 100), 1000000),
               self.position[2] + TruncDiv(velocity[2] * (dt \div 100), 1000000)>>,
             LAMBDA position :
            [bs EXCEPT ![i] = [mass |-> self.mass,
                               position |-> position,
                               velocity |-> velocity,
                               trail |-> TrailAppend(self.trail, position)]])))

(***************************************************************************)
(* Slider (lines 94-130) and the three sliders of lines 143-147            *)
(***************************************************************************)
Rect(x, y, width, height) == [x |-> x, y |-> y, width |-> width, height |-> height]

\* pygame.Rect.collidepoint: the left and top edges are inside, the right
\* and bottom edges are not.
collidepoint(rect, pos) ==
    /\ rect.x <= pos[1] /\ pos[1] < rect.x + rect.width
    /\ rect.y <= pos[2] /\ pos[2] < rect.y + rect.height

SLIDER_X == 50
SLIDER_WIDTH == 250
SLIDER_HEIGHT == 20
MIN_VAL == 1
MAX_VAL == 500
INITIAL_VAL == 100

Slider(x, y, width, min_val, max_val, initial_val) ==
    [rect |-> Rect(x, y, width, SLIDER_HEIGHT), min_val |-> min_val,
     max_val |-> max_val, value |-> initial_val, dragging |-> FALSE]

InitSliders ==
    <<Slider(SLIDER_X, SIMULATION_HEIGHT + 30, SLIDER_WIDTH, MIN_VAL, MAX_VAL, INITIAL_VAL),
      Slider(SLIDER_X, SIMULATION_HEIGHT + 70, SLIDER_WIDTH, MIN_VAL, MAX_VAL, INITIAL_VAL),
      Slider(SLIDER_X, SIMULATION_HEIGHT + 110, SLIDER_WIDTH, MIN_VAL, MAX_VAL, INITIAL_VAL)>>

\* Lines 127-130, with the clamp of line 129 left out: the value is
\* extrapolated beyond the track.
UpdateValueUnclamped(slider, x) ==
    [slider EXCEPT !.value =
        slider.min_val
        + TruncDiv((x - slider.rect.x) * (slider.max_val - slider.min_val), slider.rect.width)]

\* Lines 127-130.
update_value(slider, x) ==
    LET rel_x == Max(0, Min(slider.rect.width, x - slider.rect.x))
    IN  [slider EXCEPT !.value =
            slider.min_val
            + (rel_x * (slider.max_val - slider.min_val)) \div slider.rect.width]

\* Lines 115-125.
handle_event(slider, e) ==
    IF e.type = "MOUSEBUTTONDOWN" /\ e.button = 1
    THEN IF collidepoint(slider.rect, e.pos)
         THEN update_value([slider EXCEPT !.dragging = TRUE], e.pos[1])
         ELSE slider
    ELSE IF e.type = "MOUSEBUTTONUP" /\ e.button = 1
    THEN [slider EXCEPT !.dragging = FALSE]
    ELSE IF e.type = "MOUSEMOTION" /\ slider.dragging
    THEN update_value(slider, e.pos[1])
    ELSE slider

(***************************************************************************)
(* Button (lines 150-171)                                                  *)
(***************************************************************************)
BUTTON_X == 350
BUTTON_WIDTH == 120
BUTTON_HEIGHT == 30

reset_button == Rect(BUTTON_X, SIMULATION_HEIGHT + 30, BUTTON_WIDTH, BUTTON_HEIGHT)
pause_button == Rect(BUTTON_X, SIMULATION_HEIGHT + 70, BUTTON_WIDTH, BUTTON_HEIGHT)
clear_trails_button == Rect(BUTTON_X, SIMULATION_HEIGHT + 110, BUTTON_WIDTH, BUTTON_HEIGHT)

\* Lines 164-167.
is_clicked(button, e) ==
    IF e.type = "MOUSEBUTTONDOWN" /\ e.button = 1
    THEN collidepoint(button, e.pos)
    ELSE FALSE

(***************************************************************************)
(* Simulation set-up and the two button handlers (lines 133-140, 174-185)  *)
(***************************************************************************)
SIZE == 2500

\* Lines 133-140; np.sqrt(3)/2 is 0.866 to the position unit.
create_triangle_configuration(mass1, mass2, mass3) ==
    <<Body(mass1, <<0, -SIZE>>, <<12000, 0>>),
      Body(mass2, <<(SIZE * 866) \div 1000, SIZE \div 2>>, <<-6000, -10400>>),
      Body(mass3, <<-((SIZE * 866) \div 1000), SIZE \div 2>>, <<-6000, 10400>>)>>

\* Lines 178-181, with the slider values forgotten: the default masses.
ResetDefaultMasses(sl) ==
    create_triangle_configuration(INITIAL_VAL, INITIAL_VAL, INITIAL_VAL)

\* Lines 178-181 with masses[1] passed twice (Python's masses[0], masses[1],
\* masses[1]).
ResetRepeatedMass(sl) ==
    create_triangle_configuration(sl[1].value, sl[2].value, sl[2].value)

\* Lines 178-181.
reset_simulation(sl) ==
    LET masses == [i \in 1..3 |-> sl[i].value]
    IN  create_triangle_configuration(masses[1], masses[2], masses[3])

\* Lines 183-185, also zeroing the velocity.
ClearTrailsAndVelocity(bs) ==
    [i \in 1..3 |-> [bs[i] EXCEPT !.trail = <<>>, !.velocity = <<0, 0>>]]

\* Lines 183-185.
clear_trails(bs) == [i \in 1..3 |-> [bs[i] EXCEPT !.trail = <<>>]]

(***************************************************************************)
(* simulation_speed (lines 176, 209-212, 216)                              *)
(***************************************************************************)
SPEED_ONE == 10000000
MIN_SPEED == SPEED_ONE \div 10
MAX_SPEED == 10 * SPEED_ONE

\* Line 211 without the clamp of line 212.
WheelUnclamped(speed, y) ==
    IF y > 0 THEN (speed * 12) \div 10 ELSE (speed * 8) \div 10

\* Lines 211-212.
wheel(speed, y) ==
    LET s == IF y > 0 THEN (speed * 12) \div 10 ELSE (speed * 8) \div 10
    IN  Max(MIN_SPEED, Min(MAX_SPEED, s))

\* int(simulation_speed) rounded up instead of truncated.
SubStepsCeil(speed) == (speed + SPEED_ONE - 1) \div SPEED_ONE

\* Line 216: int(simulation_speed).
sub_steps(speed) == speed \div SPEED_ONE

(***************************************************************************)
(* Events returned by pygame.event.get() (line 191)                        *)
(***************************************************************************)
Ev(type, button, pos, y) == [type |-> type, button |-> button, pos |-> pos, y |-> y]

NoEvent == Ev("NONE", 0, <<0, 0>>, 0)

\* Pointer positions: on each slider's track (middle, left edge, last pixel),
\* on each button, left of the tracks, right of the tracks, over the
\* simulation area.
Events ==
    {Ev("QUIT", 0, <<0, 0>>, 0)}
    \cup {Ev("MOUSEBUTTONDOWN", 1, p, 0) :
            p \in {<<175, 740>>, <<50, 780>>, <<299, 820>>,
                   <<400, 745>>, <<400, 785>>, <<400, 825>>}}
    \cup {Ev("MOUSEBUTTONDOWN", 3, <<400, 745>>, 0)}
    \cup {Ev("MOUSEBUTTONUP", 1, <<175, 740>>, 0)}
    \cup {Ev("MOUSEMOTION", 0, p, 0) : p \in {<<0, 740>>, <<400, 400>>, <<112, 740>>}}
    \cup {Ev("MOUSEWHEEL", 0, <<0, 0>>, y) : y \in {1, -1}}

(***************************************************************************)
(* State                                                                   *)
(***************************************************************************)
VARIABLES
    sliders,            \* the three Slider objects
    bodies,             \* the list of three Body objects
    paused,
    simulation_speed,
    running,
    event,              \* the loop variable of line 191
    step,               \* the loop variable of line 216
    body,               \* the loop variable of line 217: the next body, 1..3
    pc,                 \* "top", "events", "physics", "draw", "exit"
    \* history variables, read by the properties only
    budget,             \* the input the environment supplies in this run
    frame,              \* frames completed
    nUp, nDown, nOther, \* events handled: wheel up, wheel down, all others
    quitSeen,           \* a QUIT event was handled
    hist,               \* per body, the positions update_position produced
                        \* since the last Reset or Clear Trails
    force,              \* force[i][j]: the force on i due to j that the last
                        \* update_position call on i used
    calls,              \* per body, update_position calls in this frame
    last_dt,            \* the dt of the last update_position call
    massAtReset         \* the slider values at the last Reset click

vars == <<sliders, bodies, paused, simulation_speed, running, event, step, body, pc,
          budget, frame, nUp, nDown, nOther, quitSeen, hist, force, calls,
          last_dt, massAtReset>>

Budget(nFrames, nWheelEvents, nOtherEvents, nInputFrames) ==
    [frames |-> nFrames, wheel |-> nWheelEvents, other |-> nOtherEvents,
     inputFrames |-> nInputFrames]

\* The state after lines 143-147 and 174-176, about to test `while running`.
InitWith(b) ==
    /\ sliders = InitSliders
    /\ bodies = create_triangle_configuration(INITIAL_VAL, INITIAL_VAL, INITIAL_VAL)
    /\ paused = FALSE
    /\ simulation_speed = SPEED_ONE
    /\ running = TRUE
    /\ event = NoEvent
    /\ step = 0
    /\ body = 1
    /\ pc = "top"
    /\ budget = b
    /\ frame = 0
    /\ nUp = 0 /\ nDown = 0 /\ nOther = 0
    /\ quitSeen = FALSE
    /\ hist = [i \in 1..3 |-> <<>>]
    /\ force = [i \in 1..3 |-> [j \in 1..3 |-> <<0, 0>>]]
    /\ calls = [i \in 1..3 |-> 0]
    /\ last_dt = 0
    /\ massAtReset = [i \in 1..3 |-> INITIAL_VAL]

Init == InitWith(Budget(MaxFrames, MaxWheelShort, MaxEvents, MaxFrames))
InitWheel == InitWith(Budget(MaxFramesWheel, MaxWheel, MaxOtherWheel, MaxFramesWheel))
\* The long run: the events, none of them a wheel event, arrive during the
\* first frame, and the simulation is then left to run.
InitLong == InitWith(Budget(MaxFramesLong, 0, MaxEventsLong, 1))

(***************************************************************************)
(* The main loop (lines 188-285)                                           *)
(***************************************************************************)
\* Line 189, `while running` true: the frame begins with pygame.event.get().
LoopTop ==
    /\ pc = "top" /\ running
    /\ frame < budget.frames
    /\ pc' = "events"
    /\ UNCHANGED <<sliders, bodies, paused, simulation_speed, running, event, step, body,
                   budget, frame, nUp, nDown, nOther, quitSeen, hist, force, calls,
                   last_dt, massAtReset>>

\* Lines 189, 284-285: `while running` false, pygame.quit() and sys.exit().
Exit ==
    /\ pc = "top" /\ ~running
    /\ pc' = "exit"
    /\ UNCHANGED <<sliders, bodies, paused, simulation_speed, running, event, step, body,
                   budget, frame, nUp, nDown, nOther, quitSeen, hist, force, calls,
                   last_dt, massAtReset>>

\* Lines 192-193 with the assignment lost: QUIT leaves running as it is.
QuitIgnored(e, r) == r

\* Lines 192-193.
quit_handled(e, r) == IF e.type = "QUIT" THEN FALSE ELSE r

\* Line 204 as `paused = True`: a second click does not resume.
PauseSet(p) == TRUE

\* Line 204: paused = not paused.
pause_toggled(p) == ~p

\* Lines 191-212: the body of the event loop for one event.
HandleEvent(e) ==
    LET newSliders == [i \in 1..3 |-> handle_event(sliders[i], e)]
        reset == is_clicked(reset_button, e)
        clear == is_clicked(clear_trails_button, e)
        afterReset == IF reset THEN reset_simulation(newSliders) ELSE bodies
    IN  /\ pc = "events"
        /\ frame < budget.inputFrames
        /\ IF e.type = "MOUSEWHEEL"
           THEN nUp + nDown < budget.wheel
           ELSE nOther < budget.other
        /\ event' = e
        /\ running' = quit_handled(e, running)
        /\ sliders' = newSliders
        /\ paused' = IF is_clicked(pause_button, e) THEN pause_toggled(paused) ELSE paused
        /\ bodies' = IF clear THEN clear_trails(afterReset) ELSE afterReset
        /\ simulation_speed' = IF e.type = "MOUSEWHEEL"
                               THEN wheel(simulation_speed, e.y)
                               ELSE simulation_speed
        /\ nUp' = IF e.type = "MOUSEWHEEL" /\ e.y > 0 THEN nUp + 1 ELSE nUp
        /\ nDown' = IF e.type = "MOUSEWHEEL" /\ ~(e.y > 0) THEN nDown + 1 ELSE nDown
        /\ nOther' = IF e.type # "MOUSEWHEEL" THEN nOther + 1 ELSE nOther
        /\ quitSeen' = (quitSeen \/ e.type = "QUIT")
        /\ hist' = IF reset \/ clear THEN [i \in 1..3 |-> <<>>] ELSE hist
        /\ massAtReset' = IF reset THEN [i \in 1..3 |-> newSliders[i].value]
                                   ELSE massAtReset
        /\ UNCHANGED <<step, body, pc, budget, frame, force, calls, last_dt>>

\* Lines 191, 215-216: the event list is exhausted; the physics phase begins.
EndEvents ==
    /\ pc = "events"
    /\ pc' = "physics"
    /\ step' = 0
    /\ body' = 1
    /\ calls' = [i \in 1..3 |-> 0]
    /\ UNCHANGED <<sliders, bodies, paused, simulation_speed, running, event,
                   budget, frame, nUp, nDown, nOther, quitSeen, hist, force,
                   last_dt, massAtReset>>

\* Lines 215-218: one call body.update_position(bodies, TIME_STEP) of the
\* loop `for body in bodies` inside `for _ in range(int(simulation_speed))`.
\* The call sees the bodies the calls before it have already moved.
UpdateBody ==
    /\ pc = "physics"
    /\ ~paused
    /\ step < sub_steps(simulation_speed)
    /\ bodies' = update_position(bodies, body, TIME_STEP)
    /\ body' = IF body = 3 THEN 1 ELSE body + 1
    /\ step' = IF body = 3 THEN step + 1 ELSE step
    /\ force' = [force EXCEPT ![body] =
                    [j \in 1..3 |-> IF j = body THEN <<0, 0>>
                                               ELSE PairForce(bodies, body, j)]]
    /\ hist' = [hist EXCEPT ![body] = Append(@, bodies'[body].position)]
    /\ calls' = [calls EXCEPT ![body] = @ + 1]
    /\ last_dt' = TIME_STEP
    /\ UNCHANGED <<sliders, paused, simulation_speed, running, event, pc,
                   budget, frame, nUp, nDown, nOther, quitSeen, massAtReset>>

\* Lines 215-216: paused, or the range is exhausted.
EndPhysics ==
    /\ pc = "physics"
    /\ paused \/ step >= sub_steps(simulation_speed)
    /\ pc' = "draw"
    /\ UNCHANGED <<sliders, bodies, paused, simulation_speed, running, event, step, body,
                   budget, frame, nUp, nDown, nOther, quitSeen, hist, force, calls,
                   last_dt, massAtReset>>

\* Lines 220-282: the frame is drawn from the state, which it only reads,
\* and the loop returns to its test.
Draw ==
    /\ pc = "draw"
    /\ pc' = "top"
    /\ frame' = frame + 1
    /\ UNCHANGED <<sliders, bodies, paused, simulation_speed, running, event, step, body,
                   budget, nUp, nDown, nOther, quitSeen, hist, force, calls,
                   last_dt, massAtReset>>

Next ==
    \/ LoopTop
    \/ Exit
    \/ \E e \in Events : HandleEvent(e)
    \/ EndEvents
    \/ UpdateBody
    \/ EndPhysics
    \/ Draw

Spec == Init /\ [][Next]_vars
SpecWheel == InitWheel /\ [][Next]_vars
SpecLong == InitLong /\ [][Next]_vars

\* The sequential program always takes its next step (clock.tick of line 282
\* blocks for a bounded time).
FairSpec == Spec /\ WF_vars(Next)

(***************************************************************************)
(* Vocabulary of the properties, stated without the model's operators      *)
(***************************************************************************)
\* The step handles one event, which is then the value of event'.
Handled == nUp' + nDown' + nOther' = nUp + nDown + nOther + 1

LeftClickIn(e, x0, y0, x1, y1) ==
    /\ e.type = "MOUSEBUTTONDOWN" /\ e.button = 1
    /\ x0 <= e.pos[1] /\ e.pos[1] < x1
    /\ y0 <= e.pos[2] /\ e.pos[2] < y1

IsResetClick(e) == LeftClickIn(e, 350, 730, 470, 760)
IsPauseClick(e) == LeftClickIn(e, 350, 770, 470, 800)
IsClearClick(e) == LeftClickIn(e, 350, 810, 470, 840)

PosVel == [i \in 1..3 |-> <<bodies[i].position, bodies[i].velocity>>]
Kinematics == [i \in 1..3 |-> <<bodies[i].mass, bodies[i].position, bodies[i].velocity>>]

LastN(s, n) == IF Len(s) <= n THEN s ELSE SubSeq(s, Len(s) - n + 1, Len(s))

(***************************************************************************)
(* C1: every slider's value stays within [min_val, max_val] whatever the   *)
(* sequence of pointer events; a pointer-move while dragging whose x is    *)
(* left of the track gives exactly min_val, one whose x is at or right of  *)
(* the track's end gives exactly max_val.                                  *)
(***************************************************************************)
C1_SliderRange ==
    \A i \in 1..3 : /\ sliders[i].min_val <= sliders[i].value
                    /\ sliders[i].value <= sliders[i].max_val

C1_ClampedStep ==
    \A i \in 1..3 :
        (Handled /\ event'.type = "MOUSEMOTION" /\ sliders[i].dragging) =>
            /\ event'.pos[1] <= 50 => sliders'[i].value = 1
            /\ event'.pos[1] >= 300 => sliders'[i].value = 500

\* C1: the range holds in every state, and every pointer-move outside the
\* track while dragging gives exactly min_val or max_val.
C1_SliderClamped == []C1_SliderRange /\ [][C1_ClampedStep]_vars

C1_Witness ==
    \E i \in 1..3 :
        /\ sliders[i].dragging
        /\ event.type = "MOUSEMOTION" /\ event.pos[1] > 300
        /\ sliders[i].value = 500

(***************************************************************************)
(* C2: a trail never holds more than 400 entries, and it is exactly the    *)
(* last 400 positions update_position produced since the last Reset or     *)
(* Clear Trails (all of them while there are at most 400), oldest first.   *)
(***************************************************************************)
\* C2: each trail has at most 400 entries and equals the last 400 positions
\* produced, in order.
C2_TrailLast400 ==
    \A i \in 1..3 :
        /\ Len(bodies[i].trail) <= 400
        /\ bodies[i].trail = LastN(hist[i], 400)

C2_Witness ==
    \E i \in 1..3 : Len(hist[i]) > 400 /\ Len(bodies[i].trail) = 400

(***************************************************************************)
(* C3: a handled Reset click leaves exactly the three bodies of the        *)
(* initial triangle, with the masses of sliders 1, 2, 3 as they stand      *)
(* after the event, and empty trails.                                      *)
(***************************************************************************)
C3_Triangle(m1, m2, m3) ==
    <<[mass |-> m1, position |-> <<0, -2500>>, velocity |-> <<12000, 0>>, trail |-> <<>>],
      [mass |-> m2, position |-> <<2165, 1250>>, velocity |-> <<-6000, -10400>>, trail |-> <<>>],
      [mass |-> m3, position |-> <<-2165, 1250>>, velocity |-> <<-6000, 10400>>, trail |-> <<>>]>>

C3_ResetStep ==
    (Handled /\ IsResetClick(event')) =>
        bodies' = C3_Triangle(sliders'[1].value, sliders'[2].value, sliders'[3].value)

\* C3: every step that handles a Reset click rebuilds the triangle from the
\* slider values.
C3_ResetRebuilds == [][C3_ResetStep]_vars

C3_Witness ==
    /\ pc = "events" /\ IsResetClick(event)
    /\ frame >= 1 /\ paused
    /\ bodies[1].mass # 100
    /\ bodies = C3_Triangle(sliders[1].value, sliders[2].value, sliders[3].value)

(***************************************************************************)
(* C4: a handled Clear Trails click empties every trail and leaves every   *)
(* body's mass, position and velocity, the paused flag, the simulation     *)
(* speed and every slider value unchanged.                                 *)
(***************************************************************************)
C4_ClearStep ==
    (Handled /\ IsClearClick(event')) =>
        /\ \A i \in 1..3 : bodies'[i].trail = <<>>
        /\ Kinematics' = Kinematics
        /\ paused' = paused
        /\ simulation_speed' = simulation_speed
        /\ \A i \in 1..3 : sliders'[i].value = sliders[i].value

\* C4: every step that handles a Clear Trails click empties the trails and
\* changes nothing else of the simulation.
C4_ClearTrailsFrame == [][C4_ClearStep]_vars

C4_Witness ==
    /\ pc = "events" /\ IsClearClick(event)
    /\ frame >= 1
    /\ bodies[1].position # <<0, -2500>>
    /\ \A i \in 1..3 : bodies[i].trail = <<>>

(***************************************************************************)
(* C5: while paused, no step other than the handling of a Reset click      *)
(* changes a position or a velocity; the paused flag changes only when a   *)
(* Pause click is handled, and each handled Pause click flips it.          *)
(***************************************************************************)
C5_PauseStep ==
    /\ (paused /\ ~(Handled /\ IsResetClick(event'))) => PosVel' = PosVel
    /\ paused' # paused => (Handled /\ IsPauseClick(event'))
    /\ (Handled /\ IsPauseClick(event')) => paused' = ~paused

\* C5: every step keeps positions and velocities while paused (Reset aside),
\* and paused flips exactly on Pause clicks.
C5_PausedFreezes == [][C5_PauseStep]_vars

\* Two Pause clicks and nothing else were handled, and physics has advanced
\* in the frame of the second one.
C5_Witness ==
    /\ nOther = 2 /\ nUp + nDown = 0
    /\ IsPauseClick(event)
    /\ ~paused
    /\ pc = "draw" /\ calls[1] >= 1

(***************************************************************************)
(* C6: simulation_speed is 1.0 before any wheel event and always within    *)
(* [0.1, 10.0]; only a wheel event changes it; a wheel-up gives            *)
(* 1.2 * speed and a wheel-down 0.8 * speed (to the fixed point's          *)
(* resolution), clamped to [0.1, 10.0]; five wheel-ups from 1.0 give       *)
(* 2.48832.                                                                *)
(***************************************************************************)
C6_SpeedRange ==
    /\ 1000000 <= simulation_speed /\ simulation_speed <= 100000000
    /\ (nUp = 0 /\ nDown = 0) => simulation_speed = 10000000
    /\ (nUp = 5 /\ nDown = 0) => simulation_speed = 24883200

C6_Scaled(tenths) ==
    IF tenths * simulation_speed > 1000000000 THEN simulation_speed' = 100000000
    ELSE IF tenths * simulation_speed < 10000000 THEN simulation_speed' = 1000000
    ELSE /\ 10 * simulation_speed' <= tenths * simulation_speed
         /\ tenths * simulation_speed < 10 * simulation_speed' + 10

C6_WheelStep ==
    /\ (Handled /\ event'.type = "MOUSEWHEEL" /\ event'.y > 0) => C6_Scaled(12)
    /\ (Handled /\ event'.type = "MOUSEWHEEL" /\ event'.y < 0) => C6_Scaled(8)
    /\ simulation_speed' # simulation_speed => (Handled /\ event'.type = "MOUSEWHEEL")

\* C6: the speed stays in [0.1, 10.0] and every wheel event scales it by 1.2
\* or 0.8, clamped.
C6_SpeedClamped == []C6_SpeedRange /\ [][C6_WheelStep]_vars

\* Eleven wheel-downs from 1.0: the eleventh, from about 0.107, is clamped.
C6_Witness ==
    /\ nDown = 11 /\ nUp = 0
    /\ event.type = "MOUSEWHEEL"
    /\ simulation_speed = 1000000

(***************************************************************************)
(* C7: when the physics phase of a frame is over and the simulation is not *)
(* paused, every body has had exactly floor(simulation_speed) calls of     *)
(* update_position in that frame, each with dt = 86400; while the speed is *)
(* below 1.0 the physics phase changes no body.                            *)
(***************************************************************************)
C7_Floor == CHOOSE n \in 0..10 :
                /\ n * 10000000 <= simulation_speed
                /\ simulation_speed < (n + 1) * 10000000

C7_AfterPhysics ==
    (pc = "draw" /\ ~paused) =>
        /\ step = C7_Floor
        /\ \A i \in 1..3 : calls[i] = C7_Floor
        /\ calls[1] > 0 => last_dt = 86400

C7_SlowStep ==
    (pc = "physics" /\ simulation_speed < 10000000) => bodies' = bodies

\* C7: an unpaused frame runs floor(simulation_speed) sub-steps of one day on
\* every body, none while the speed is below 1.0.
C7_FloorSubSteps == []C7_AfterPhysics /\ [][C7_SlowStep]_vars

C7_Witness ==
    /\ pc = "draw" /\ ~paused
    /\ 20000000 <= simulation_speed /\ simulation_speed < 30000000
    /\ \A i \in 1..3 : calls[i] = 2 /\ Len(hist[i]) = 2

(***************************************************************************)
(* C8: when a sub-step is complete, the force it used to accelerate body i *)
(* due to body j is the opposite of the force it used to accelerate j due  *)
(* to i.                                                                   *)
(***************************************************************************)
\* C8: after each complete sub-step, force[i][j] = -force[j][i] for all i, j.
C8_ForcesOpposite ==
    body = 1 => \A i, j \in 1..3 : force[i][j] = VecNeg(force[j][i])

(***************************************************************************)
(* C9: the loop exits only after a QUIT event was handled; running is      *)
(* false exactly when one was; once one was handled no further frame       *)
(* begins, and the loop does exit.                                         *)
(***************************************************************************)
C9_ExitOnlyOnQuit ==
    /\ pc = "exit" => quitSeen
    /\ running <=> ~quitSeen

C9_NoFurtherFrame == quitSeen => ~(pc = "top" /\ pc' = "events")

\* C9: exit only after QUIT; after QUIT no further frame begins and the loop
\* eventually exits.
C9_QuitTerminates ==
    /\ []C9_ExitOnlyOnQuit
    /\ [][C9_NoFurtherFrame]_vars
    /\ (quitSeen ~> pc = "exit")

C9_Witness == pc = "exit" /\ quitSeen /\ frame = 2 /\ nOther = 3

(***************************************************************************)
(* C10: every body's mass is the value its slider had at the last handled  *)
(* Reset click (1e30 before any), whatever the sliders and the physics     *)
(* have done since.                                                        *)
(***************************************************************************)
\* C10: every body's mass equals its slider's value at the last Reset click.
C10_MassFromLastReset ==
    \A i \in 1..3 : bodies[i].mass = massAtReset[i]

C10_Witness ==
    /\ massAtReset[1] # 100
    /\ sliders[1].value # bodies[1].mass
    /\ pc = "draw" /\ calls[1] >= 1
=============================================================================
